---- MODULE Spec2Model ----
(***************************************************************************)
(* Model of src/server.py: the POST /submit intake pipeline of the form    *)
(* relay server (schema selection, validation, formatting, dispatch to     *)
(* the messaging API, response).                                           *)
(*                                                                         *)
(* Text values (form fields, e-mail, phone, birthdate) are sequences of    *)
(* one-character strings, so the validators are computed on characters.    *)
(* A Python dict is a function whose DOMAIN is the set of keys present;    *)
(* the photos dict, whose iteration order matters, is a sequence of        *)
(* [key, payload] entries in insertion order.                              *)
(***************************************************************************)
EXTENDS Integers, Sequences, FiniteSets, TLC

VARIABLES
    clock,               \* what date.today() returned, once validate_birthdate has read it
    request,             \* the HTTP request the client has composed / sent
    edits,               \* the parts of the request the client changed
    pc,                  \* position of the handler
    form_data,           \* handle_submission: form_data (mutated in place)
    photos,              \* handle_submission: photos
    is_job_application,  \* handle_submission: is_job_application
    message,             \* handle_submission: message
    calls,               \* outbound requests.post calls, in order
    decoded,             \* process_image_data calls, in order
    idx,                 \* send_to_telegram: position in photo_data.items()
    response,            \* responses returned to the caller, in order
    arg,                 \* argument of the validator under test
    ret,                 \* return value of the validator under test
    self,                \* the call of the handler the variables above belong to
    parked               \* the locals of the other calls in progress, while they wait

vars == <<clock, request, edits, pc, form_data, photos, is_job_application,
          message, calls, decoded, idx, response, arg, ret, self, parked>>

-----------------------------------------------------------------------------
(* Characters *)

Digits == {"0","1","2","3","4","5","6","7","8","9"}

Letters ==
    {"a","b","c","d","e","f","g","h","i","j","k","l","m","n","o","p","q","r",
     "s","t","u","v","w","x","y","z","A","B","C","D","E","F","G","H","I","J",
     "K","L","M","N","O","P","Q","R","S","T","U","V","W","X","Y","Z"}

DigitVal(c) ==
    CASE c = "0" -> 0 [] c = "1" -> 1 [] c = "2" -> 2 [] c = "3" -> 3
      [] c = "4" -> 4 [] c = "5" -> 5 [] c = "6" -> 6 [] c = "7" -> 7
      [] c = "8" -> 8 [] c = "9" -> 9

DigitChar(n) ==
    CASE n = 0 -> "0" [] n = 1 -> "1" [] n = 2 -> "2" [] n = 3 -> "3"
      [] n = 4 -> "4" [] n = 5 -> "5" [] n = 6 -> "6" [] n = 7 -> "7"
      [] n = 8 -> "8" [] n = 9 -> "9"

AllIn(s, S) == \A i \in 1..Len(s) : s[i] \in S

-----------------------------------------------------------------------------
(* validate_email: re.match(r'^[a-zA-Z0-9._%+-]+@[a-zA-Z0-9.-]+\.[a-zA-Z]{2,}$') *)

LocalChars == Letters \cup Digits \cup {".", "_", "%", "+", "-"}

DomainChars == Letters \cup Digits \cup {".", "-"}

\* The pattern anchored at both ends of s: a non-empty local part, one "@",
\* a non-empty domain, a "." and a top-level part of two or more letters.
EmailPattern(s) ==
    \E i \in 2..Len(s) :
        /\ s[i] = "@"
        /\ AllIn(SubSeq(s, 1, i - 1), LocalChars)
        /\ \E j \in (i + 2)..(Len(s) - 2) :
              /\ s[j] = "."
              /\ AllIn(SubSeq(s, i + 1, j - 1), DomainChars)
              /\ AllIn(SubSeq(s, j + 1, Len(s)), Letters)

\* "$" also matches just before a newline that ends the string.
validate_email(email) ==
    \/ EmailPattern(email)
    \/ /\ Len(email) > 0
       /\ email[Len(email)] = "\n"
       /\ EmailPattern(SubSeq(email, 1, Len(email) - 1))

-----------------------------------------------------------------------------
(* validate_phone *)

MinPhoneDigits == 10

validate_phone(phone) ==
    LET cleaned == SelectSeq(phone, LAMBDA c : c \in Digits)
    IN  Len(cleaned) >= MinPhoneDigits

-----------------------------------------------------------------------------
(* validate_birthdate *)

RECURSIVE ToInt(_)
ToInt(s) ==
    IF Len(s) = 0 THEN 0
    ELSE 10 * ToInt(SubSeq(s, 1, Len(s) - 1)) + DigitVal(s[Len(s)])

IsLeap(y) == (y % 4 = 0 /\ y % 100 # 0) \/ y % 400 = 0

DaysInMonth(y, m) ==
    IF m = 2 THEN (IF IsLeap(y) THEN 29 ELSE 28)
    ELSE IF m \in {4, 6, 9, 11} THEN 30 ELSE 31

\* The directive %m: 1[0-2] | 0[1-9] | [1-9]
MonthText(s) ==
    \/ Len(s) = 1 /\ s[1] \in Digits \ {"0"}
    \/ Len(s) = 2 /\ s[1] = "0" /\ s[2] \in Digits \ {"0"}
    \/ Len(s) = 2 /\ s[1] = "1" /\ s[2] \in {"0", "1", "2"}

\* The directive %d: 3[01] | [12]\d | 0[1-9] | [1-9] | " "[1-9]
DayText(s) ==
    \/ Len(s) = 1 /\ s[1] \in Digits \ {"0"}
    \/ Len(s) = 2 /\ s[1] = "3" /\ s[2] \in {"0", "1"}
    \/ Len(s) = 2 /\ s[1] \in {"1", "2"} /\ s[2] \in Digits
    \/ Len(s) = 2 /\ s[1] \in {"0", " "} /\ s[2] \in Digits \ {"0"}

NoDate == [ok |-> FALSE, year |-> 0, month |-> 0, day |-> 0]

\* datetime.strptime(s, '%Y-%m-%d').date(); ok = FALSE stands for ValueError.
strptime(s) ==
    LET dashes == {i \in 1..Len(s) : s[i] = "-"}
    IN  IF Cardinality(dashes) # 2 THEN NoDate
        ELSE LET i1 == CHOOSE i \in dashes : \A j \in dashes : i <= j
                 i2 == CHOOSE i \in dashes : \A j \in dashes : i >= j
                 Y  == SubSeq(s, 1, i1 - 1)
                 M  == SubSeq(s, i1 + 1, i2 - 1)
                 D  == SubSeq(s, i2 + 1, Len(s))
             IN  IF ~(Len(Y) = 4 /\ AllIn(Y, Digits) /\ MonthText(M) /\ DayText(D))
                 THEN NoDate
                 ELSE LET y == ToInt(Y)
                          m == ToInt(M)
                          d == ToInt(IF D[1] = " " THEN Tail(D) ELSE D)
                      IN  IF y >= 1 /\ d <= DaysInMonth(y, m)
                          THEN [ok |-> TRUE, year |-> y, month |-> m, day |-> d]
                          ELSE NoDate

\* Mutant of TupleLess: <= for <.
TupleLess_OrEqual(a, b) == a[1] < b[1] \/ (a[1] = b[1] /\ a[2] <= b[2])

\* Python's tuple comparison (a1, a2) < (b1, b2)
TupleLess(a, b) == a[1] < b[1] \/ (a[1] = b[1] /\ a[2] < b[2])

MinAge == 18

Age(today, birth_date) ==
    today.year - birth_date.year
      - (IF TupleLess(<<today.month, today.day>>,
                      <<birth_date.month, birth_date.day>>) THEN 1 ELSE 0)

validate_birthdate(birthdate, today) ==
    LET birth_date == strptime(birthdate)
    IN  IF ~birth_date.ok THEN FALSE
        ELSE Age(today, birth_date) >= MinAge

-----------------------------------------------------------------------------
(* validate_image_size and process_image_data *)

\* A photo payload is a string, modelled as its comma-separated segments
\* (photo.split(',')): a data URL "data:image/jpeg;base64,<text>" has two, a
\* bare base64 text one. A segment is the number of its base64 alphabet
\* characters (chars) and of its trailing "=" (pad).
max_size_mb == 10

\* Mutant of validate_image_size: the ceiling itself is refused.
validate_image_size_Strict(nbytes) == nbytes < max_size_mb * 1024 * 1024

validate_image_size(nbytes) == nbytes <= max_size_mb * 1024 * 1024

\* base64.b64decode: the decoded length, or ok = FALSE for binascii.Error
\* (incorrect padding). The texts drawn end in at most two "=".
b64decode(seg) ==
    IF (seg.chars + seg.pad) % 4 = 0 /\ seg.pad <= 2 /\ (seg.pad = 0 \/ seg.chars > 0)
    THEN [ok |-> TRUE, nbytes |-> 3 * ((seg.chars + seg.pad) \div 4) - seg.pad]
    ELSE [ok |-> FALSE, nbytes |-> 0]

\* ok = FALSE stands for the exception process_image_data re-raises.
process_image_data(photo) ==
    LET image_data == IF Len(photo) > 1              \* ',' in photo
                      THEN b64decode(photo[2])       \* photo.split(',')[1]
                      ELSE b64decode(photo[1])
    IN  IF ~image_data.ok THEN [ok |-> FALSE, nbytes |-> 0]
        ELSE IF ~validate_image_size(image_data.nbytes)
             THEN [ok |-> FALSE, nbytes |-> 0]       \* "Imagem muito grande"
             ELSE image_data

\* Truth value of a payload string: non-empty.
PhotoTruthy(photo) == Len(photo) > 1 \/ photo[1].chars + photo[1].pad > 0

-----------------------------------------------------------------------------
(* Python dict helpers *)

\* d.get(k, default)
Get(d, k, default) == IF k \in DOMAIN d THEN d[k] ELSE default

\* Mutant of Falsy: only an absent key counts as missing (k not in d).
Falsy_AbsentOnly(d, k) == k \notin DOMAIN d

\* not d.get(k): the key is absent or its value is the empty string
Falsy(d, k) == k \notin DOMAIN d \/ d[k] = <<>>

\* d[k] = v on a dict
Put(d, k, v) == [x \in DOMAIN d \cup {k} |-> IF x = k THEN v ELSE d[x]]

\* del d[k]
Del(d, k) == [x \in DOMAIN d \ {k} |-> d[x]]

\* The photos dict keeps insertion order: a sequence of [key, payload].
PhotoKeys(ph) == {ph[i].key : i \in 1..Len(ph)}

\* not photos.get(k)
PhotoFalsy(ph, k) ==
    \A i \in 1..Len(ph) : ph[i].key = k => ~PhotoTruthy(ph[i].payload)

-----------------------------------------------------------------------------
(* Text constants of handle_submission *)

JOB_APPLICATION == <<"j","o","b","_","a","p","p","l","i","c","a","t","i","o","n">>
VAGA_DE_EMPREGO == <<"V","a","g","a"," ","d","e"," ","E","m","p","r","e","g","o">>
NAO_INFORMADO == <<"N","ã","o"," ","i","n","f","o","r","m","a","d","o">>
NAO_INFORMADA == <<"N","ã","o"," ","i","n","f","o","r","m","a","d","a">>

\* required_fields of a job application, in dict order
required_fields_job ==
    << [field |-> "firstName",        message |-> "Nome é obrigatório"],
       [field |-> "email",            message |-> "Email é obrigatório"],
       [field |-> "phone",            message |-> "Telefone é obrigatório"],
       [field |-> "country",          message |-> "País é obrigatório"],
       [field |-> "employmentStatus", message |-> "Situação de emprego é obrigatória"] >>

\* optional_fields of a job application, in dict order
optional_fields ==
    << [field |-> "lastName",         default |-> <<"N","/","A">>],
       [field |-> "addressLine1",     default |-> NAO_INFORMADO \o
           <<" ","-"," ","C","a","n","d","i","d","a","t","u","r","a"," ","O","n","l","i","n","e">>],
       [field |-> "city",             default |-> NAO_INFORMADO],
       [field |-> "state",            default |-> NAO_INFORMADO],
       [field |-> "postalCode",       default |-> <<"0","0","0","0","0","-","0","0","0">>],
       [field |-> "income",           default |-> NAO_INFORMADO],
       [field |-> "employmentStatus", default |-> <<"c","a","n","d","i","d","a","t","e">>] >>

\* required_fields of a NextCard application, in dict order
required_fields_nextcard ==
    << [field |-> "firstName",        message |-> "Nome é obrigatório"],
       [field |-> "lastName",         message |-> "Sobrenome é obrigatório"],
       [field |-> "email",            message |-> "Email é obrigatório"],
       [field |-> "phone",            message |-> "Telefone é obrigatório"],
       [field |-> "idNumber",         message |-> "Número de identificação é obrigatório"],
       [field |-> "birthdate",        message |-> "Data de nascimento é obrigatória"],
       [field |-> "country",          message |-> "País é obrigatório"],
       [field |-> "addressLine1",     message |-> "Endereço é obrigatório"],
       [field |-> "city",             message |-> "Cidade é obrigatória"],
       [field |-> "state",            message |-> "Estado é obrigatório"],
       [field |-> "postalCode",       message |-> "CEP é obrigatório"],
       [field |-> "currency",         message |-> "Moeda é obrigatória"],
       [field |-> "income",           message |-> "Renda anual é obrigatória"],
       [field |-> "occupation",       message |-> "Ocupação é obrigatória"],
       [field |-> "employmentStatus", message |-> "Situação de emprego é obrigatória"],
       [field |-> "cardType",         message |-> "Tipo de cartão é obrigatório"] >>

required_photos == <<"front", "back", "selfie">>

PhotoMessage(photo_type) ==
    CASE photo_type = "front"  -> "Foto front é obrigatória"
      [] photo_type = "back"   -> "Foto back é obrigatória"
      [] photo_type = "selfie" -> "Foto selfie é obrigatória"

-----------------------------------------------------------------------------
(* handle_submission: schema selection *)

\* Mutant of IsJobApplication: only applicationType is looked at, the legacy
\* cardType is not.
IsJobApplication_TypeOnly(form) ==
    Get(form, "applicationType", <<>>) = JOB_APPLICATION

IsJobApplication(form) ==
    \/ Get(form, "applicationType", <<>>) = JOB_APPLICATION
    \/ Get(form, "cardType", <<>>) = VAGA_DE_EMPREGO

\* Mutant of ApplyDefaults: a default is filled in only for an absent key.
RECURSIVE ApplyDefaults_OnlyAbsent(_, _)
ApplyDefaults_OnlyAbsent(form, i) ==
    IF i > Len(optional_fields) THEN form
    ELSE LET o == optional_fields[i]
         IN  ApplyDefaults_OnlyAbsent(IF o.field \notin DOMAIN form
                                      THEN Put(form, o.field, o.default)
                                      ELSE form,
                                      i + 1)

\* Mutant of ApplyDefaults: every field of the list is set to its default,
\* whatever the form holds.
RECURSIVE ApplyDefaults_Overwrite(_, _)
ApplyDefaults_Overwrite(form, i) ==
    IF i > Len(optional_fields) THEN form
    ELSE ApplyDefaults_Overwrite(
             Put(form, optional_fields[i].field, optional_fields[i].default), i + 1)

\* for field, default_value in optional_fields.items(): from entry i on
RECURSIVE ApplyDefaults(_, _)
ApplyDefaults(form, i) ==
    IF i > Len(optional_fields) THEN form
    ELSE LET o == optional_fields[i]
         IN  ApplyDefaults(IF Falsy(form, o.field)
                           THEN Put(form, o.field, o.default)
                           ELSE form,
                           i + 1)

\* form_data after the branch on is_job_application
SelectSchema(form) ==
    IF IsJobApplication(form) THEN ApplyDefaults(form, 1) ELSE form

RequiredFields(is_job) ==
    IF is_job THEN required_fields_job ELSE required_fields_nextcard

-----------------------------------------------------------------------------
(* handle_submission: validation, in the order of the code *)

Pass == [ok |-> TRUE, message |-> ""]

Fail(msg) == [ok |-> FALSE, message |-> msg]

\* for field, message in required_fields.items(): from entry i on
RECURSIVE CheckRequired(_, _, _)
CheckRequired(form, required, i) ==
    IF i > Len(required) THEN Pass
    ELSE IF Falsy(form, required[i].field) THEN Fail(required[i].message)
    ELSE CheckRequired(form, required, i + 1)

\* Mutant of CheckEmail: any text with an "@" in it passes.
CheckEmail_AtSignOnly(form) ==
    IF ~(\E i \in 1..Len(Get(form, "email", <<>>)) : Get(form, "email", <<>>)[i] = "@")
    THEN Fail("Email inválido") ELSE Pass

CheckEmail(form) ==
    IF ~validate_email(Get(form, "email", <<>>))
    THEN Fail("Email inválido") ELSE Pass

CheckPhone(form) ==
    IF ~validate_phone(Get(form, "phone", <<>>))
    THEN Fail("Número de telefone inválido") ELSE Pass

CheckBirthdate(form, is_job, today) ==
    IF ~is_job /\ ~validate_birthdate(Get(form, "birthdate", <<>>), today)
    THEN Fail("Você deve ter pelo menos 18 anos") ELSE Pass

\* for photo_type in required_photos: from entry i on
RECURSIVE CheckPhotos(_, _)
CheckPhotos(ph, i) ==
    IF i > Len(required_photos) THEN Pass
    ELSE IF PhotoFalsy(ph, required_photos[i]) THEN Fail(PhotoMessage(required_photos[i]))
    ELSE CheckPhotos(ph, i + 1)

\* Mutant of Validate: the phone is checked before the e-mail.
Validate_PhoneFirst(form, ph, is_job, today) ==
    LET r1 == CheckRequired(form, RequiredFields(is_job), 1)
        r2 == CheckEmail(form)
        r3 == CheckPhone(form)
        r4 == CheckBirthdate(form, is_job, today)
        r5 == CheckPhotos(ph, 1)
    IN  IF ~r1.ok THEN r1
        ELSE IF ~r3.ok THEN r3
        ELSE IF ~r2.ok THEN r2
        ELSE IF ~r4.ok THEN r4
        ELSE r5

\* The checks of lines 223-244, each returning at its first failure.
Validate(form, ph, is_job, today) ==
    LET r1 == CheckRequired(form, RequiredFields(is_job), 1)
        r2 == CheckEmail(form)
        r3 == CheckPhone(form)
        r4 == CheckBirthdate(form, is_job, today)
        r5 == CheckPhotos(ph, 1)
    IN  IF ~r1.ok THEN r1
        ELSE IF ~r2.ok THEN r2
        ELSE IF ~r3.ok THEN r3
        ELSE IF ~r4.ok THEN r4
        ELSE r5

-----------------------------------------------------------------------------
(* handle_submission: the message of lines 246-299, as its title, its     *)
(* labelled lines in order, and the count of attached photos.             *)

Line(label, value) == [label |-> label, value |-> value]

\* sum(1 for photo in photos.values() if photo)
AttachedCount(ph) == Cardinality({i \in 1..Len(ph) : PhotoTruthy(ph[i].payload)})

FormatJob(form, ph) ==
    [ title |-> "Nova Candidatura Recebida",
      lines |-> <<
        Line("Nome", Get(form, "firstName", <<>>) \o <<" ">> \o Get(form, "lastName", <<>>)),
        Line("Email", Get(form, "email", <<>>)),
        Line("Telefone", Get(form, "phone", <<>>)),
        Line("Celular", Get(form, "cellphone", NAO_INFORMADO)),
        Line("País", Get(form, "country", <<>>)),
        Line("Nacionalidade", Get(form, "nationality", NAO_INFORMADO)),
        Line("Data Nascimento", Get(form, "birthdate", NAO_INFORMADO)),
        Line("Área de Interesse", Get(form, "positionInterest", NAO_INFORMADO)),
        Line("Situação de Emprego", Get(form, "employmentStatus", NAO_INFORMADO)),
        Line("Profissão", Get(form, "occupation", NAO_INFORMADO)),
        Line("Salário Atual", Get(form, "income", NAO_INFORMADO)),
        Line("Instituições", Get(form, "institutions", NAO_INFORMADO)),
        Line("Experiência", Get(form, "experience", NAO_INFORMADO)),
        Line("Escolaridade", Get(form, "education", NAO_INFORMADO)),
        Line("Idiomas", Get(form, "languages", NAO_INFORMADO)),
        Line("Habilidades", Get(form, "skills", NAO_INFORMADO)),
        Line("Carta de Apresentação", Get(form, "coverLetter", NAO_INFORMADA)) >>,
      attached |-> AttachedCount(ph) ]

FormatNextCard(form, ph) ==
    [ title |-> "Nova solicitação de NextCard",
      lines |-> <<
        Line("Nome", Get(form, "firstName", <<>>) \o <<" ">> \o Get(form, "lastName", <<>>)),
        Line("Email", Get(form, "email", <<>>)),
        Line("Telefone", Get(form, "phone", <<>>)),
        Line("ID/Passaporte", Get(form, "idNumber", <<>>)),
        Line("Data de Nascimento", Get(form, "birthdate", <<>>)),
        Line("País", Get(form, "country", <<>>)),
        Line("Endereço", Get(form, "addressLine1", <<>>)),
        Line("Endereço 2", Get(form, "addressLine2", <<>>)),
        Line("Cidade", Get(form, "city", <<>>)),
        Line("Estado", Get(form, "state", <<>>)),
        Line("Código Postal", Get(form, "postalCode", <<>>)),
        Line("Moeda", Get(form, "currency", <<>>)),
        Line("Renda Anual", Get(form, "income", <<>>)),
        Line("Ocupação", Get(form, "occupation", <<>>)),
        Line("Situação de Emprego", Get(form, "employmentStatus", <<>>)),
        Line("Tipo de Cartão", Get(form, "cardType", <<>>)) >>,
      attached |-> AttachedCount(ph) ]

FormatMessage(form, ph, is_job) ==
    IF is_job THEN FormatJob(form, ph) ELSE FormatNextCard(form, ph)

NoMessage == [title |-> "", lines |-> <<>>, attached |-> 0]

-----------------------------------------------------------------------------
(* handle_submission: the application id of lines 305-306 *)

HexDigit(n) ==
    CASE n < 10 -> DigitChar(n)
      [] n = 10 -> "a" [] n = 11 -> "b" [] n = 12 -> "c"
      [] n = 13 -> "d" [] n = 14 -> "e" [] n = 15 -> "f"

\* secrets.token_hex on the random bytes it drew: two lower-case hex digits a byte
RECURSIVE token_hex(_)
token_hex(bytes) ==
    IF Len(bytes) = 0 THEN <<>>
    ELSE <<HexDigit(Head(bytes) \div 16), HexDigit(Head(bytes) % 16)>>
           \o token_hex(Tail(bytes))

UpperChar(c) ==
    CASE c = "a" -> "A" [] c = "b" -> "B" [] c = "c" -> "C"
      [] c = "d" -> "D" [] c = "e" -> "E" [] c = "f" -> "F"
      [] OTHER -> c

\* Mutant of upper: the text is left as it is.
upper_Identity(s) == s

\* str.upper
upper(s) == [i \in 1..Len(s) |-> UpperChar(s[i])]

Prefix(is_job) == IF is_job THEN <<"J", "H">> ELSE <<"N", "C">>

ApplicationId(is_job, bytes) == Prefix(is_job) \o upper(token_hex(bytes))

-----------------------------------------------------------------------------
(* The requests a client can send: a baseline request changed in at most   *)
(* MaxEdits places.                                                        *)

MaxEdits == 2

Date(y, m, d) == [year |-> y, month |-> m, day |-> d]

\* The days on which the server may be running
Clocks == {Date(2026, 11, 1), Date(2024, 2, 29)}

\* The clock before it is read
NotRead == Date(0, 0, 0)

EmptyDict == [k \in {} |-> <<>>]

Seg(chars, pad) == [chars |-> chars, pad |-> pad]

EmptyPhoto == <<Seg(0, 0)>>                      \* ""
SmallPhoto == <<Seg(8, 0)>>                      \* 6 bytes
DataUrlPhoto == <<Seg(20, 0), Seg(6, 2)>>        \* "data:image/jpeg;base64," + 4 bytes
BadPaddingPhoto == <<Seg(5, 0)>>                 \* not a multiple of 4 characters
LimitPhoto == <<Seg(13981014, 2)>>               \* 10485760 bytes = 10 MiB
OverLimitPhoto == <<Seg(20, 0), Seg(13981015, 1)>>   \* data URL of 10 MiB + 1 byte

\* What a client may put in a slot in place of the baseline's photo
PhotoSamples ==
    {EmptyPhoto, BadPaddingPhoto, LimitPhoto, OverLimitPhoto}

EmailSamples ==
    { <<>>,
      <<"a","@","b">>,
      <<"a","b",".","c","o">>,
      <<"a","@","b",".","c">>,
      <<"a",".","b","+","c","@","d","-","e",".","f",".","o","r","g">> }

PhoneSamples ==
    { <<>>,
      <<"1","1","9","8","7","6","5","4","3">>,
      <<"+","1"," ","1","9","8","-","7","6","5","-","4","3","x">>,
      <<"(","1","1",")"," ","9","8","7","6","5","-","4","3","2","1">> }

BirthdateSamples ==
    { <<>>,
      <<"2","0","0","8","-","1","1","-","0","1">>,
      <<"2","0","0","8","-","1","1","-","0","2">>,
      <<"1","7","/","0","5","/","1","9","9","0">> }

NextCardForm ==
    [ firstName        |-> <<"A","n","a">>,
      lastName         |-> <<"L","i","m","a">>,
      email            |-> <<"a","@","b",".","c","o">>,
      phone            |-> <<"1","1","9","8","7","6","5","4","3","2","1">>,
      idNumber         |-> <<"X","1","2","3">>,
      birthdate        |-> <<"1","9","9","0","-","0","5","-","1","7">>,
      country          |-> <<"B","R">>,
      addressLine1     |-> <<"R","u","a"," ","1">>,
      city             |-> <<"R","i","o">>,
      state            |-> <<"R","J">>,
      postalCode       |-> <<"2","0","0","0","0","-","0","0","0">>,
      currency         |-> <<"B","R","L">>,
      income           |-> <<"5","0","0","0","0">>,
      occupation       |-> <<"D","e","v">>,
      employmentStatus |-> <<"e","m","p","l","o","y","e","d">>,
      cardType         |-> <<"G","o","l","d">> ]

\* The short job form, with the legacy discriminator and the last name left
\* empty
JobShortForm ==
    [ firstName |-> <<"A","n","a">>,
      lastName  |-> <<>>,
      email     |-> <<"a","@","b",".","c","o">>,
      phone     |-> <<"1","1","9","8","7","6","5","4","3","2","1">>,
      country   |-> <<"B","R">>,
      cardType  |-> VAGA_DE_EMPREGO ]

Entry(key, payload) == [key |-> key, payload |-> payload]

ThreePhotos ==
    <<Entry("front", SmallPhoto), Entry("back", DataUrlPhoto), Entry("selfie", SmallPhoto)>>

ObjectRequest(form) ==
    [isJson |-> TRUE, kind |-> "object", hasForm |-> TRUE, form |-> form,
     hasPhotos |-> TRUE, photos |-> ThreePhotos]

\* A body that is not a JSON object: "null", "array" ([1]), "garbage" (not
\* JSON), "empty" (no bytes)
OtherRequest(kind) ==
    [isJson |-> TRUE, kind |-> kind, hasForm |-> FALSE, form |-> EmptyDict,
     hasPhotos |-> FALSE, photos |-> <<>>]

BaseRequests ==
    {ObjectRequest(NextCardForm), ObjectRequest(JobShortForm)}
      \cup {OtherRequest(k) : k \in {"null", "array", "garbage", "empty"}}

FormFields ==
    {required_fields_nextcard[i].field : i \in 1..Len(required_fields_nextcard)}
      \cup {"applicationType"}

Alternatives(f) ==
    CASE f = "email"           -> EmailSamples
      [] f = "phone"           -> PhoneSamples
      [] f = "birthdate"       -> BirthdateSamples
      [] f = "applicationType" -> {<<>>, JOB_APPLICATION, <<"n","e","x","t","c","a","r","d">>}
      [] f = "cardType"        -> {<<>>, VAGA_DE_EMPREGO}
      [] OTHER                 -> {<<>>}

CanEdit(what) ==
    /\ pc = "client"
    /\ what \notin edits
    /\ Cardinality(edits) < MaxEdits

Edited(what, req) ==
    /\ request' = req
    /\ edits' = edits \cup {what}
    /\ UNCHANGED <<clock, pc, form_data, photos, is_job_application, message,
                   calls, decoded, idx, response, arg, ret,
                   self, parked>>

\* The client changes the value of a field the form carries, or adds a
\* field with a value.
SetField(f, v) ==
    /\ CanEdit(<<"form", f>>)
    /\ request.hasForm
    /\ IF f \in DOMAIN request.form THEN request.form[f] # v ELSE v # <<>>
    /\ Edited(<<"form", f>>, [request EXCEPT !.form = Put(@, f, v)])

\* The client leaves a field out.
RemoveField(f) ==
    /\ CanEdit(<<"form", f>>)
    /\ request.hasForm
    /\ f \in DOMAIN request.form
    /\ Edited(<<"form", f>>, [request EXCEPT !.form = Del(@, f)])

SetPhoto(i, p) ==
    /\ CanEdit(<<"photos", request.photos[i].key>>)
    /\ Edited(<<"photos", request.photos[i].key>>,
              [request EXCEPT !.photos[i].payload = p])

RemovePhoto(i) ==
    /\ CanEdit(<<"photos", request.photos[i].key>>)
    /\ Edited(<<"photos", request.photos[i].key>>,
              [request EXCEPT !.photos =
                  SubSeq(@, 1, i - 1) \o SubSeq(@, i + 1, Len(@))])

\* A fourth key in the photos object
AddPhoto(p) ==
    /\ CanEdit(<<"photos", "document">>)
    /\ request.hasPhotos
    /\ Edited(<<"photos", "document">>,
              [request EXCEPT !.photos = Append(@, Entry("document", p))])

\* The photos object with its keys in the opposite order
ReversePhotos ==
    /\ CanEdit(<<"photos", "order">>)
    /\ Len(request.photos) > 1
    /\ Edited(<<"photos", "order">>,
              [request EXCEPT !.photos =
                  [i \in 1..Len(@) |-> @[Len(@) + 1 - i]]])

\* The body without its formData key, or without its photos key
DropFormData ==
    /\ CanEdit(<<"body", "formData">>)
    /\ request.hasForm
    /\ Edited(<<"body", "formData">>,
              [request EXCEPT !.hasForm = FALSE, !.form = EmptyDict])

DropPhotos ==
    /\ CanEdit(<<"body", "photos">>)
    /\ request.hasPhotos
    /\ Edited(<<"body", "photos">>,
              [request EXCEPT !.hasPhotos = FALSE, !.photos = <<>>])

\* A Content-Type other than application/json
SetContentType ==
    /\ CanEdit(<<"header", "Content-Type">>)
    /\ Edited(<<"header", "Content-Type">>, [request EXCEPT !.isJson = FALSE])

-----------------------------------------------------------------------------
(* The handler of POST /submit *)

Init ==
    /\ clock = NotRead
    /\ request \in BaseRequests
    /\ edits = {}
    /\ pc = "client"
    /\ form_data = EmptyDict
    /\ photos = <<>>
    /\ is_job_application = FALSE
    /\ message = NoMessage
    /\ calls = <<>>
    /\ decoded = <<>>
    /\ idx = 0
    /\ response = <<>>
    /\ arg = <<>>
    /\ ret = FALSE
    /\ self = 1
    /\ parked = <<>>

\* The request reaches handle_submission.
Receive ==
    /\ pc = "client"
    /\ pc' = "Received"
    /\ UNCHANGED <<clock, request, edits, form_data, photos, is_job_application,
                   message, calls, decoded, idx, response, arg, ret,
                   self, parked>>

ErrorBody(msg) == [success |-> FALSE, message |-> msg]

\* return jsonify(body), status
Return(status, body) ==
    /\ response' = Append(response, [status |-> status, body |-> body])
    /\ pc' = "Responded"

\* request.get_json(): the parsed body; ok = FALSE stands for the BadRequest
\* that Flask raises when the body does not parse as JSON.
get_json(req) ==
    IF req.kind \in {"garbage", "empty"} THEN [ok |-> FALSE, kind |-> "none"]
    ELSE [ok |-> TRUE, kind |-> req.kind]

\* Mutant of ParseFailure: line 321 answers with str(e), the text of the
\* exception it caught.
ParseFailure_LeaksException(req) ==
    IF ~req.isJson
    THEN [status |-> 400, message |-> "Content-Type must be application/json"]
    ELSE LET data == get_json(req)
         IN  IF ~data.ok
             THEN [status |-> 500,
                   message |-> "400 Bad Request: Failed to decode JSON object"]
             ELSE IF data.kind = "null" \/ (data.kind = "object" /\ ~req.hasForm /\ ~req.hasPhotos)
             THEN [status |-> 400, message |-> "Nenhum dado recebido"]
             ELSE IF data.kind # "object"
             THEN [status |-> 500, message |-> "'list' object has no attribute 'get'"]
             ELSE [status |-> 0, message |-> ""]

\* Lines 159-170 when no Submission comes out of them: the status and message
\* returned, or status 0 when form_data and photos are extracted.
ParseFailure(req) ==
    IF ~req.isJson
    THEN [status |-> 400, message |-> "Content-Type must be application/json"]
    ELSE LET data == get_json(req)
         IN  IF ~data.ok
             THEN [status |-> 500, message |-> "Erro interno do servidor"]   \* line 319
             ELSE IF data.kind = "null" \/ (data.kind = "object" /\ ~req.hasForm /\ ~req.hasPhotos)
             THEN [status |-> 400, message |-> "Nenhum dado recebido"]
             ELSE IF data.kind # "object"
             THEN [status |-> 500, message |-> "Erro interno do servidor"]   \* data.get on a list
             ELSE [status |-> 0, message |-> ""]

\* Lines 159-167: the request is refused before a Submission is read.
RejectRequest ==
    /\ pc = "Received"
    /\ ParseFailure(request).status # 0
    /\ Return(ParseFailure(request).status, ErrorBody(ParseFailure(request).message))
    /\ UNCHANGED <<clock, request, edits, form_data, photos, is_job_application,
                   message, calls, decoded, idx, arg, ret,
                   self, parked>>

\* Lines 169-221: form_data and photos are read, the kind is chosen and the
\* defaults of a job application are filled in.
SelectSchemaStep ==
    /\ pc = "Received"
    /\ ParseFailure(request).status = 0
    /\ is_job_application' = IsJobApplication(request.form)
    /\ form_data' = SelectSchema(request.form)
    /\ photos' = request.photos
    /\ pc' = "SchemaSelected"
    /\ UNCHANGED <<clock, request, edits, message, calls, decoded, idx, response,
                   arg, ret,
                   self, parked>>

\* Whether validation gets to line 237's call of validate_birthdate, which
\* reads date.today()
ReadsClock(form, is_job) ==
    /\ ~is_job
    /\ CheckRequired(form, RequiredFields(is_job), 1).ok
    /\ CheckEmail(form).ok
    /\ CheckPhone(form).ok

\* The values date.today() may return to this submission
Today == IF ReadsClock(form_data, is_job_application) THEN Clocks ELSE {clock}

\* Lines 223-299: the checks pass and the message is formatted.
ValidatePass ==
    /\ pc = "SchemaSelected"
    /\ \E today \in Today :
          /\ Validate(form_data, photos, is_job_application, today).ok
          /\ clock' = today
    /\ message' = FormatMessage(form_data, photos, is_job_application)
    /\ pc' = "Validated"
    /\ UNCHANGED <<request, edits, form_data, photos, is_job_application,
                   calls, decoded, idx, response, arg, ret,
                   self, parked>>

\* Lines 223-244: a check fails.
ValidateFail ==
    /\ pc = "SchemaSelected"
    /\ \E today \in Today :
          /\ ~Validate(form_data, photos, is_job_application, today).ok
          /\ clock' = today
    /\ pc' = "ValidationFailed"
    /\ UNCHANGED <<request, edits, form_data, photos, is_job_application,
                   message, calls, decoded, idx, response, arg, ret,
                   self, parked>>

\* Mutant of RespondValidationFailure: the 400 is produced but the handler
\* does not return, and goes on to dispatch.
RespondValidationFailure_FallsThrough ==
    /\ pc = "ValidationFailed"
    /\ response' = Append(response,
          [status |-> 400,
           body |-> ErrorBody(Validate(form_data, photos, is_job_application, clock).message)])
    /\ pc' = "Validated"
    /\ UNCHANGED <<clock, request, edits, form_data, photos, is_job_application,
                   message, calls, decoded, idx, arg, ret,
                   self, parked>>

\* The return of the failing check: 400 with its message.
RespondValidationFailure ==
    /\ pc = "ValidationFailed"
    /\ Return(400, ErrorBody(Validate(form_data, photos, is_job_application, clock).message))
    /\ UNCHANGED <<clock, request, edits, form_data, photos, is_job_application,
                   message, calls, decoded, idx, arg, ret,
                   self, parked>>

-----------------------------------------------------------------------------
(* send_to_telegram *)

\* What requests.post followed by raise_for_status can do: return, or raise
\* a RequestException (connection error, timeout, HTTP error status).
Outcomes == {"ok", "timeout", "http_error"}

TextCall(o) == [api |-> "sendMessage", slot |-> "", outcome |-> o]

PhotoCall(p_type, o) == [api |-> "sendPhoto", slot |-> p_type, outcome |-> o]

\* Lines 108-116 with the text sent: the photo loop starts.
SendTextOk ==
    /\ pc = "Validated"
    /\ calls' = Append(calls, TextCall("ok"))
    /\ idx' = 1
    /\ pc' = "SendingPhotos"
    /\ UNCHANGED <<clock, request, edits, form_data, photos, is_job_application,
                   message, decoded, response, arg, ret,
                   self, parked>>

\* Mutant of SendTextFail: the failure is swallowed and the photo loop runs.
SendTextFail_Continues ==
    /\ pc = "Validated"
    /\ \E o \in Outcomes \ {"ok"} : calls' = Append(calls, TextCall(o))
    /\ idx' = 1
    /\ pc' = "SendingPhotos"
    /\ UNCHANGED <<clock, request, edits, form_data, photos, is_job_application,
                   message, decoded, response, arg, ret,
                   self, parked>>

\* Mutant of SendTextFail: a failed text-send is attempted a second time
\* before the dispatch is given up.
SendTextFail_RetryOnce ==
    /\ pc = "Validated"
    /\ \E o1, o2 \in Outcomes \ {"ok"} :
          calls' = calls \o <<TextCall(o1), TextCall(o2)>>
    /\ pc' = "DispatchFailed"
    /\ UNCHANGED <<clock, request, edits, form_data, photos, is_job_application,
                   message, decoded, idx, response, arg, ret,
                   self, parked>>

\* Lines 108-116 raising, lines 149-151: return False.
SendTextFail ==
    /\ pc = "Validated"
    /\ \E o \in Outcomes \ {"ok"} : calls' = Append(calls, TextCall(o))
    /\ pc' = "DispatchFailed"
    /\ UNCHANGED <<clock, request, edits, form_data, photos, is_job_application,
                   message, decoded, idx, response, arg, ret,
                   self, parked>>

InLoop == pc = "SendingPhotos" /\ idx <= Len(photos)

\* Line 121: an empty payload is passed over.
SkipEmptyPhoto ==
    /\ InLoop
    /\ ~PhotoTruthy(photos[idx].payload)
    /\ idx' = idx + 1
    /\ UNCHANGED <<clock, request, edits, pc, form_data, photos, is_job_application,
                   message, calls, decoded, response, arg, ret,
                   self, parked>>

\* Lines 123, 142-144: process_image_data raises; continue.
DecodeFailure ==
    /\ InLoop
    /\ PhotoTruthy(photos[idx].payload)
    /\ ~process_image_data(photos[idx].payload).ok
    /\ decoded' = Append(decoded, [slot |-> photos[idx].key, ok |-> FALSE])
    /\ idx' = idx + 1
    /\ UNCHANGED <<clock, request, edits, pc, form_data, photos, is_job_application,
                   message, calls, response, arg, ret,
                   self, parked>>

\* Mutant of UploadPhoto: a failed upload reaches the outer handler, and
\* send_to_telegram returns False.
UploadPhoto_FailsDispatch ==
    /\ InLoop
    /\ PhotoTruthy(photos[idx].payload)
    /\ process_image_data(photos[idx].payload).ok
    /\ decoded' = Append(decoded, [slot |-> photos[idx].key, ok |-> TRUE])
    /\ \E o \in Outcomes :
          /\ calls' = Append(calls, PhotoCall(photos[idx].key, o))
          /\ pc' = IF o = "ok" THEN pc ELSE "DispatchFailed"
    /\ idx' = idx + 1
    /\ UNCHANGED <<clock, request, edits, form_data, photos, is_job_application,
                   message, response, arg, ret,
                   self, parked>>

\* Mutant of UploadPhoto: a failed upload ends the loop (break for continue).
UploadPhoto_Break ==
    /\ InLoop
    /\ PhotoTruthy(photos[idx].payload)
    /\ process_image_data(photos[idx].payload).ok
    /\ decoded' = Append(decoded, [slot |-> photos[idx].key, ok |-> TRUE])
    /\ \E o \in Outcomes :
          /\ calls' = Append(calls, PhotoCall(photos[idx].key, o))
          /\ idx' = IF o = "ok" THEN idx + 1 ELSE Len(photos) + 1
    /\ UNCHANGED <<clock, request, edits, pc, form_data, photos, is_job_application,
                   message, response, arg, ret,
                   self, parked>>

\* Lines 123-141: the photo is decoded and uploaded; whatever the upload
\* does, the loop goes on.
UploadPhoto ==
    /\ InLoop
    /\ PhotoTruthy(photos[idx].payload)
    /\ process_image_data(photos[idx].payload).ok
    /\ decoded' = Append(decoded, [slot |-> photos[idx].key, ok |-> TRUE])
    /\ \E o \in Outcomes : calls' = Append(calls, PhotoCall(photos[idx].key, o))
    /\ idx' = idx + 1
    /\ UNCHANGED <<clock, request, edits, pc, form_data, photos, is_job_application,
                   message, response, arg, ret,
                   self, parked>>

\* Lines 146-147: return True.
FinishDispatch ==
    /\ pc = "SendingPhotos"
    /\ idx > Len(photos)
    /\ pc' = "Dispatched"
    /\ UNCHANGED <<clock, request, edits, form_data, photos, is_job_application,
                   message, calls, decoded, idx, response, arg, ret,
                   self, parked>>

-----------------------------------------------------------------------------
(* handle_submission: lines 304-317 *)

\* The four bytes secrets.token_hex(4) draws
TokenBytes == {<<0, 9, 10, 160>>, <<222, 173, 190, 255>>}

RespondSuccess ==
    /\ pc = "Dispatched"
    /\ \E bytes \in TokenBytes :
          Return(200, [success |-> TRUE,
                       message |-> "Dados enviados com sucesso",
                       applicationId |-> ApplicationId(is_job_application, bytes)])
    /\ UNCHANGED <<clock, request, edits, form_data, photos, is_job_application,
                   message, calls, decoded, idx, arg, ret,
                   self, parked>>

RespondDispatchFailure ==
    /\ pc = "DispatchFailed"
    /\ Return(500, ErrorBody("Erro ao enviar para o Telegram"))
    /\ UNCHANGED <<clock, request, edits, form_data, photos, is_job_application,
                   message, calls, decoded, idx, arg, ret,
                   self, parked>>

-----------------------------------------------------------------------------

Next ==
    \/ \E f \in FormFields : \E v \in Alternatives(f) : SetField(f, v)
    \/ \E f \in FormFields : RemoveField(f)
    \/ \E i \in 1..Len(request.photos) : \E p \in PhotoSamples : SetPhoto(i, p)
    \/ \E i \in 1..Len(request.photos) : RemovePhoto(i)
    \/ \E p \in {SmallPhoto, EmptyPhoto} : AddPhoto(p)
    \/ ReversePhotos
    \/ DropFormData
    \/ DropPhotos
    \/ SetContentType
    \/ Receive
    \/ RejectRequest
    \/ SelectSchemaStep
    \/ ValidatePass
    \/ ValidateFail
    \/ RespondValidationFailure
    \/ SendTextOk
    \/ SendTextFail
    \/ SkipEmptyPhoto
    \/ DecodeFailure
    \/ UploadPhoto
    \/ FinishDispatch
    \/ RespondSuccess
    \/ RespondDispatchFailure

Spec == Init /\ [][Next]_vars

\* The steps of the handler once the request is in: straight-line code run by
\* the server's thread, in which the only waits are the two requests.post
\* calls, each bounded by its timeout (lines 115 and 135).
HandlerStep ==
    \/ RejectRequest
    \/ SelectSchemaStep
    \/ ValidatePass
    \/ ValidateFail
    \/ RespondValidationFailure
    \/ SendTextOk
    \/ SendTextFail
    \/ SkipEmptyPhoto
    \/ DecodeFailure
    \/ UploadPhoto
    \/ FinishDispatch
    \/ RespondSuccess
    \/ RespondDispatchFailure

\* A job application by the legacy cardType: front and back do not decode
\* (bad padding, over the ceiling), an empty fourth entry, selfie uploads.
JobRequest ==
    [ObjectRequest(JobShortForm) EXCEPT !.photos =
        << Entry("front", BadPaddingPhoto), Entry("back", OverLimitPhoto),
           Entry("document", EmptyPhoto), Entry("selfie", SmallPhoto) >>]

\* A job application by applicationType with every field filled in, none of
\* whose photos decodes
FullJobRequest ==
    [ObjectRequest(Put(NextCardForm, "applicationType", JOB_APPLICATION)) EXCEPT !.photos =
        << Entry("front", OverLimitPhoto), Entry("back", BadPaddingPhoto),
           Entry("selfie", BadPaddingPhoto) >>]

\* A NextCard application with an e-mail that does not match
BadEmailRequest ==
    ObjectRequest([NextCardForm EXCEPT !.email = <<"a","@","b">>])

\* Requests as they arrive at the handler, one for each way through it: a
\* NextCard application that passes, the job application, a NextCard
\* application of a minor, one with a bad e-mail, and the bodies that are no
\* JSON object.
ReadyRequests ==
    { ObjectRequest(NextCardForm),
      JobRequest,
      ObjectRequest([NextCardForm EXCEPT !.birthdate =
                        <<"2","0","0","8","-","1","1","-","0","2">>]),
      BadEmailRequest }
      \cup {OtherRequest(k) : k \in {"null", "array", "garbage", "empty"}}

\* The handler is entered with a request.
InitFair ==
    /\ clock = NotRead
    /\ request \in ReadyRequests
    /\ edits = {}
    /\ pc = "Received"
    /\ form_data = EmptyDict
    /\ photos = <<>>
    /\ is_job_application = FALSE
    /\ message = NoMessage
    /\ calls = <<>>
    /\ decoded = <<>>
    /\ idx = 0
    /\ response = <<>>
    /\ arg = <<>>
    /\ ret = FALSE
    /\ self = 1
    /\ parked = <<>>

\* The handler keeps running: a step of it that stays possible is taken.
SpecFair == InitFair /\ [][HandlerStep]_vars /\ WF_vars(HandlerStep)

-----------------------------------------------------------------------------
(* validate_birthdate on its own: the server's day and a birthdate text    *)
(* are drawn, and the validator is called once.                            *)

BirthClocks ==
    Clocks \cup {Date(2025, 3, 1), Date(2026, 1, 1), Date(2026, 12, 31), Date(2025, 2, 28)}

IsDate(y, m, d) == m \in 1..12 /\ d \in 1..DaysInMonth(y, m)

Pad2(n) == <<DigitChar(n \div 10), DigitChar(n % 10)>>

Pad4(n) == Pad2(n \div 100) \o Pad2(n % 100)

\* The text a client sends for a date: YYYY-MM-DD
IsoText(d) == Pad4(d.year) \o <<"-">> \o Pad2(d.month) \o <<"-">> \o Pad2(d.day)

\* The same date without the zero padding of month and day, which strptime
\* also parses
Unpad(n) == IF n < 10 THEN <<DigitChar(n)>> ELSE Pad2(n)

LooseText(d) == Pad4(d.year) \o <<"-">> \o Unpad(d.month) \o <<"-">> \o Unpad(d.day)

\* Birthdates around the 17th, 18th and 19th anniversaries before day c
DatesAround(c) ==
    {Date(c.year - k, m, d) :
        k \in 17..19,
        m \in {c.month - 1, c.month, c.month + 1},
        d \in {c.day - 1, c.day, c.day + 1, 1, 28, 29, 30, 31}}

BirthDates(c) ==
    {b \in DatesAround(c) : IsDate(b.year, b.month, b.day)}
      \cup {Date(1990, 5, 17), Date(2030, 1, 1)}

\* Texts that are no date
BadDateTexts ==
    { <<>>,
      <<"a","b","c">>,
      <<"1","7","/","0","5","/","1","9","9","0">>,
      <<"2","0","0","0","-","0","2","-","3","0">>,
      <<"2","0","0","0","-","1","3","-","0","1">>,
      <<"2","0","0","0","-","1","1","-","0","1","x">>,
      <<"0","0","-","1","1","-","0","1">>,
      <<"2","0","0","0","-","1","1">>,
      <<"0","0","0","0","-","0","1","-","0","1">> }

BirthArgs(c) ==
    {[text |-> IsoText(b), valid |-> TRUE, date |-> b] : b \in BirthDates(c)}
      \cup {[text |-> LooseText(b), valid |-> TRUE, date |-> b] : b \in BirthDates(c)}
      \cup {[text |-> t, valid |-> FALSE, date |-> NotRead] : t \in BadDateTexts}

InitBirthdate ==
    /\ clock \in BirthClocks
    /\ arg \in BirthArgs(clock)
    /\ ret = FALSE
    /\ pc = "call"
    /\ request = OtherRequest("null")
    /\ edits = {}
    /\ form_data = EmptyDict
    /\ photos = <<>>
    /\ is_job_application = FALSE
    /\ message = NoMessage
    /\ calls = <<>>
    /\ decoded = <<>>
    /\ idx = 0
    /\ response = <<>>
    /\ self = 1
    /\ parked = <<>>

CallValidateBirthdate ==
    /\ pc = "call"
    /\ ret' = validate_birthdate(arg.text, clock)
    /\ pc' = "returned"
    /\ UNCHANGED <<clock, request, edits, form_data, photos, is_job_application,
                   message, calls, decoded, idx, response, arg,
                   self, parked>>

NextBirthdate == CallValidateBirthdate

SpecBirthdate == InitBirthdate /\ [][NextBirthdate]_vars

-----------------------------------------------------------------------------
(* Calls of the handler in progress at the same time. Each request is       *)
(* served by a call of handle_submission of its own; request, form_data,    *)
(* photos, is_job_application, message, the position in the photo loop and  *)
(* the response are locals of that call (and of its call of                 *)
(* send_to_telegram), and nothing at module level is written after start-   *)
(* up. The variables hold the locals of the call that is running (self);    *)
(* parked holds the locals of the calls that wait.                          *)

NumWorkers == 2

Workers == 1..NumWorkers

\* The locals of the running call
Locals ==
    [ clock |-> clock, request |-> request, pc |-> pc, form_data |-> form_data,
      photos |-> photos, is_job_application |-> is_job_application,
      message |-> message, calls |-> calls, decoded |-> decoded, idx |-> idx,
      response |-> response ]

\* The locals of a call that was just entered with request req
Fresh(req) ==
    [ clock |-> NotRead, request |-> req, pc |-> "Received", form_data |-> EmptyDict,
      photos |-> <<>>, is_job_application |-> FALSE,
      message |-> NoMessage, calls |-> <<>>, decoded |-> <<>>, idx |-> 0,
      response |-> <<>> ]

\* The requests served at the same time: the two job applications, the
\* NextCard application with a bad e-mail, and a body that is not JSON
ConcurrentRequests ==
    {JobRequest, FullJobRequest, BadEmailRequest, OtherRequest("garbage")}

InitConcurrent ==
    \E reqs \in [Workers -> ConcurrentRequests] :
        /\ self = 1
        /\ parked = [w \in Workers \ {1} |-> Fresh(reqs[w])]
        /\ clock = NotRead
        /\ request = reqs[1]
        /\ edits = {}
        /\ pc = "Received"
        /\ form_data = EmptyDict
        /\ photos = <<>>
        /\ is_job_application = FALSE
        /\ message = NoMessage
        /\ calls = <<>>
        /\ decoded = <<>>
        /\ idx = 0
        /\ response = <<>>
        /\ arg = <<>>
        /\ ret = FALSE

\* Mutant of Switch: form_data is kept at module level, one for all calls.
Switch_SharesFormData(w) ==
    /\ w \in DOMAIN parked
    /\ parked[w].pc # "Responded"
    /\ parked' = [x \in (DOMAIN parked \ {w}) \cup {self} |->
                     IF x = self THEN Locals ELSE parked[x]]
    /\ self' = w
    /\ clock' = parked[w].clock
    /\ request' = parked[w].request
    /\ pc' = parked[w].pc
    /\ form_data' = form_data
    /\ photos' = parked[w].photos
    /\ is_job_application' = parked[w].is_job_application
    /\ message' = parked[w].message
    /\ calls' = parked[w].calls
    /\ decoded' = parked[w].decoded
    /\ idx' = parked[w].idx
    /\ response' = parked[w].response
    /\ UNCHANGED <<edits, arg, ret>>

\* The running call is suspended, at any point, and the waiting call w goes
\* on with its own locals.
Switch(w) ==
    /\ w \in DOMAIN parked
    /\ parked[w].pc # "Responded"
    /\ parked' = [x \in (DOMAIN parked \ {w}) \cup {self} |->
                     IF x = self THEN Locals ELSE parked[x]]
    /\ self' = w
    /\ clock' = parked[w].clock
    /\ request' = parked[w].request
    /\ pc' = parked[w].pc
    /\ form_data' = parked[w].form_data
    /\ photos' = parked[w].photos
    /\ is_job_application' = parked[w].is_job_application
    /\ message' = parked[w].message
    /\ calls' = parked[w].calls
    /\ decoded' = parked[w].decoded
    /\ idx' = parked[w].idx
    /\ response' = parked[w].response
    /\ UNCHANGED <<edits, arg, ret>>

NextConcurrent ==
    \/ HandlerStep
    \/ \E w \in Workers : Switch(w)

SpecConcurrent == InitConcurrent /\ [][NextConcurrent]_vars

-----------------------------------------------------------------------------
(* Properties *)

Responded == pc = "Responded"

\* The response the caller got
Reply == response[Len(response)]

HasId == "applicationId" \in DOMAIN Reply.body

\* The request carries a Submission: a JSON object with formData or photos
IsSubmission ==
    /\ request.isJson
    /\ request.kind = "object"
    /\ request.hasForm \/ request.hasPhotos

\* The SchemaKind of the request as sent
SentAsJob ==
    \/ ("applicationType" \in DOMAIN request.form
          /\ request.form["applicationType"] = JOB_APPLICATION)
    \/ ("cardType" \in DOMAIN request.form
          /\ request.form["cardType"] = VAGA_DE_EMPREGO)

\* Absent or empty in the request as sent
MissingSent(f) == f \notin DOMAIN request.form \/ Len(request.form[f]) = 0

FieldsOf(required) == {required[i].field : i \in 1..Len(required)}

MessageOf(required, f) ==
    (CHOOSE r \in {required[i] : i \in 1..Len(required)} : r.field = f).message

SentRequired == IF SentAsJob THEN required_fields_job ELSE required_fields_nextcard

\* The fields of the RequiredFieldSet for which no default exists
EffectiveRequired ==
    IF SentAsJob THEN {"firstName", "email", "phone", "country"}
    ELSE FieldsOf(required_fields_nextcard)

\* C1 as stated: a Submission missing any field of the RequiredFieldSet of
\* its kind (employmentStatus included for a job application) is answered 400
\* with a missing field's message, and no outbound call is made.
C1_MissingRequiredAsStated ==
    (pc # "client" /\ IsSubmission
       /\ \E f \in FieldsOf(SentRequired) : MissingSent(f))
    => /\ calls = <<>>
       /\ Responded =>
            /\ Reply.status = 400
            /\ Reply.body.success = FALSE
            /\ \E f \in FieldsOf(SentRequired) :
                  MissingSent(f) /\ Reply.body.message = MessageOf(SentRequired, f)

\* C1 (amended): a Submission missing (absent or empty) any required field
\* that has no default under its kind -- firstName, email, phone, country for
\* a job application, all 16 fields otherwise -- is answered 400 with the
\* message of a missing such field, and no outbound call is ever made.
C1_MissingRequired ==
    (pc # "client" /\ IsSubmission /\ \E f \in EffectiveRequired : MissingSent(f))
    => /\ calls = <<>>
       /\ decoded = <<>>
       /\ Responded =>
            /\ Reply.status = 400
            /\ Reply.body.success = FALSE
            /\ \E f \in EffectiveRequired :
                  MissingSent(f) /\ Reply.body.message = MessageOf(SentRequired, f)

\* A NextCard submission with an empty city and no income is answered 400
\* with the city's message.
C1_Witness ==
    /\ Responded /\ IsSubmission /\ ~SentAsJob
    /\ "city" \in DOMAIN request.form /\ request.form["city"] = <<>>
    /\ "income" \notin DOMAIN request.form
    /\ Reply.status = 400
    /\ Reply.body.message = "Cidade é obrigatória"
    /\ calls = <<>>

\* The submission passed validation: its message was formatted.
PassedValidation == message # NoMessage

\* The text-send call was made and succeeded.
TextSent == Len(calls) > 0 /\ calls[1].api = "sendMessage" /\ calls[1].outcome = "ok"

\* The text-send call was made and failed.
TextFailed == Len(calls) > 0 /\ calls[1].api = "sendMessage" /\ calls[1].outcome # "ok"

\* The media-upload calls made so far
PhotoCalls == {i \in 1..Len(calls) : calls[i].api = "sendPhoto"}

FailedPhotoCalls == {i \in PhotoCalls : calls[i].outcome # "ok"}

\* The dispatch loop is over.
LoopDone == pc \in {"Dispatched", "Responded"} /\ TextSent

\* C2: for a submission that passed validation, the response is 200 with
\* success = true and an applicationId exactly when the one text-send call
\* succeeded, and 500 without an id otherwise, however many photos failed
\* to decode or to upload.
C2_SuccessIffTextSent ==
    (Responded /\ PassedValidation)
    => /\ Len(calls) > 0
       /\ calls[1].api = "sendMessage"
       /\ \A i \in 2..Len(calls) : calls[i].api = "sendPhoto"
       /\ (Reply.status = 200 /\ Reply.body.success /\ HasId) <=> TextSent
       /\ ~TextSent => (Reply.status = 500 /\ ~Reply.body.success /\ ~HasId)

\* Every photo failed (one to decode, the others to upload) and the
\* response is still 200 with an applicationId.
C2_Witness ==
    /\ Responded /\ PassedValidation /\ TextSent
    /\ Cardinality(PhotoCalls) = 2
    /\ FailedPhotoCalls = PhotoCalls
    /\ \E i \in 1..Len(decoded) : ~decoded[i].ok
    /\ Reply.status = 200 /\ HasId

\* C3: once the text-send call has failed, no image is decoded and no
\* media-upload call is made, and the response is 500 with the
\* dispatch-failure message and no applicationId.
C3_TextFailureStopsDispatch ==
    TextFailed
    => /\ decoded = <<>>
       /\ Len(calls) = 1
       /\ Responded =>
            /\ Reply.status = 500
            /\ Reply.body.success = FALSE
            /\ Reply.body.message = "Erro ao enviar para o Telegram"
            /\ ~HasId

\* The text-send timed out and the caller got the 500.
C3_Witness ==
    /\ Responded
    /\ TextFailed /\ calls[1].outcome = "timeout"
    /\ Reply.status = 500
    /\ \E i \in 1..Len(photos) : PhotoTruthy(photos[i].payload)

SlotsOnly == PhotoKeys(photos) = {"front", "back", "selfie"}

CallsFor(slot) == {i \in PhotoCalls : calls[i].slot = slot}

\* C4: after a successful text-send, every non-empty photo entry has been
\* decoded by the end of the loop and every decoded one uploaded, whatever
\* happened to the others; and when the three slots decode, the upload of
\* back fails and no other upload fails, three uploads were attempted, two
\* succeeded and the response is 200 with an applicationId.
C4_SlotFailuresIsolated ==
    LoopDone
    => /\ \A i \in 1..Len(photos) :
            PhotoTruthy(photos[i].payload)
            => \E j \in 1..Len(decoded) : decoded[j].slot = photos[i].key
       /\ \A j \in 1..Len(decoded) :
            decoded[j].ok => CallsFor(decoded[j].slot) # {}
       /\ (/\ SlotsOnly
           /\ \A j \in 1..Len(decoded) : decoded[j].ok
           /\ \E i \in CallsFor("back") : calls[i].outcome # "ok"
           /\ \A i \in PhotoCalls : calls[i].slot # "back" => calls[i].outcome = "ok")
          => /\ Cardinality(PhotoCalls) = 3
             /\ Cardinality(PhotoCalls \ FailedPhotoCalls) = 2
             /\ Responded => (Reply.status = 200 /\ HasId)

\* front uploaded, back failed, selfie uploaded, response 200.
C4_Witness ==
    /\ Responded /\ TextSent /\ SlotsOnly
    /\ Len(calls) = 4
    /\ calls[2] = PhotoCall("front", "ok")
    /\ calls[3] = PhotoCall("back", "timeout")
    /\ calls[4] = PhotoCall("selfie", "ok")
    /\ Reply.status = 200 /\ HasId

\* Absent or empty in the Submission as validated
MissingNow(f) == f \notin DOMAIN form_data \/ Len(form_data[f]) = 0

\* No non-empty payload under the slot
SlotEmpty(slot) ==
    ~ \E i \in 1..Len(photos) : photos[i].key = slot /\ PhotoTruthy(photos[i].payload)

\* The message of the first failing check in the order required fields (in
\* set order), e-mail, phone, birthdate (NextCard only), photos front, back,
\* selfie; "" when no check fails.
FirstFailure ==
    LET missing == {i \in 1..Len(SentRequired) : MissingNow(SentRequired[i].field)}
    IN  IF missing # {}
        THEN SentRequired[CHOOSE i \in missing : \A j \in missing : i <= j].message
        ELSE IF ~validate_email(form_data["email"]) THEN "Email inválido"
        ELSE IF ~validate_phone(form_data["phone"]) THEN "Número de telefone inválido"
        ELSE IF ~SentAsJob /\ ~validate_birthdate(form_data["birthdate"], clock)
        THEN "Você deve ter pelo menos 18 anos"
        ELSE IF SlotEmpty("front") THEN "Foto front é obrigatória"
        ELSE IF SlotEmpty("back") THEN "Foto back é obrigatória"
        ELSE IF SlotEmpty("selfie") THEN "Foto selfie é obrigatória"
        ELSE ""

\* C5: a submission is answered 400 exactly when some validation check
\* fails, and the 400 carries the message of the first failing check in the
\* fixed order; the later checks have no influence, and nothing is sent.
C5_FirstFailureWins ==
    (Responded /\ IsSubmission)
    => /\ Reply.status = 400 <=> FirstFailure # ""
       /\ Reply.status = 400 =>
            /\ Reply.body.message = FirstFailure
            /\ calls = <<>>

\* E-mail and phone are both invalid: the response names the e-mail.
C5_Witness ==
    /\ Responded /\ IsSubmission
    /\ ~MissingNow("email") /\ ~validate_email(form_data["email"])
    /\ ~MissingNow("phone") /\ ~validate_phone(form_data["phone"])
    /\ Reply.status = 400
    /\ Reply.body.message = "Email inválido"

DefaultOf(f) ==
    (CHOOSE o \in {optional_fields[i] : i \in 1..Len(optional_fields)} : o.field = f).default

\* The "required" messages of the fields that have a default
DefaultedMessages ==
    {r.message : r \in {x \in {required_fields_job[i] : i \in 1..Len(required_fields_job)}
                              \cup {required_fields_nextcard[i] :
                                       i \in 1..Len(required_fields_nextcard)} :
                          x.field \in FieldsOf(optional_fields)}}

\* C6: in a job application, each of lastName, addressLine1, city, state,
\* postalCode, income, employmentStatus that the request leaves absent or
\* empty holds its default (lastName = "N/A") from schema selection on, and
\* the response is never the "required" message of one of these fields.
C6_DefaultsBeforeRequired ==
    (pc \notin {"client", "Received"} /\ IsSubmission /\ SentAsJob)
    => /\ \A f \in FieldsOf(optional_fields) :
            MissingSent(f) => (f \in DOMAIN form_data /\ form_data[f] = DefaultOf(f))
       /\ MissingSent("lastName") => form_data["lastName"] = <<"N", "/", "A">>
       /\ Responded => Reply.body.message \notin DefaultedMessages

\* A job application with an empty lastName and no employmentStatus is
\* accepted.
C6_Witness ==
    /\ Responded /\ IsSubmission /\ SentAsJob
    /\ "lastName" \in DOMAIN request.form /\ request.form["lastName"] = <<>>
    /\ "employmentStatus" \notin DOMAIN request.form
    /\ form_data["lastName"] = <<"N", "/", "A">>
    /\ Reply.status = 200

UpperHex == Digits \cup {"A", "B", "C", "D", "E", "F"}

\* C7: a response carries an applicationId exactly when it is the 200, which
\* comes only after a successful text-send; the id is "JH" for a job
\* application and "NC" otherwise, followed by 8 upper-case hexadecimal
\* characters.
C7_ApplicationIdFormat ==
    Responded
    => /\ HasId <=> Reply.status = 200
       /\ HasId =>
            LET id == Reply.body.applicationId
            IN  /\ TextSent
                /\ Len(id) = 10
                /\ <<id[1], id[2]>> = (IF SentAsJob THEN <<"J", "H">> ELSE <<"N", "C">>)
                /\ \A k \in 3..10 : id[k] \in UpperHex

\* A job application got the id JHDEADBEFF.
C7_Witness ==
    /\ Responded /\ HasId /\ SentAsJob
    /\ Reply.body.applicationId = <<"J","H","D","E","A","D","B","E","F","F">>

\* The decoded length of a payload whose base64 text is well formed
WellFormed(photo) ==
    LET seg == photo[Len(photo)] IN (seg.chars + seg.pad) % 4 = 0

PayloadBytes(photo) ==
    LET seg == photo[Len(photo)] IN ((seg.chars + seg.pad) \div 4) * 3 - seg.pad

DecodedAs(slot, ok) ==
    \E j \in 1..Len(decoded) : decoded[j].slot = slot /\ decoded[j].ok = ok

\* C8: when the loop is over, a photo that decodes to more than 10485760
\* bytes has a failed decode and no media-upload call, one of exactly
\* 10485760 bytes or less was decoded and uploaded, every non-empty entry
\* after an oversized one was still decoded, and the response is the 200.
C8_OversizedPhotoSkipped ==
    LoopDone
    => /\ \A i \in 1..Len(photos) :
            LET p == photos[i].payload
            IN  (PhotoTruthy(p) /\ WellFormed(p))
                => IF PayloadBytes(p) > 10485760
                   THEN /\ DecodedAs(photos[i].key, FALSE)
                        /\ CallsFor(photos[i].key) = {}
                        /\ \A k \in (i + 1)..Len(photos) :
                              PhotoTruthy(photos[k].payload)
                              => \E j \in 1..Len(decoded) : decoded[j].slot = photos[k].key
                   ELSE /\ DecodedAs(photos[i].key, TRUE)
                        /\ CallsFor(photos[i].key) # {}
       /\ Responded => (Reply.status = 200 /\ HasId)

\* front is 10 MiB + 1 byte and is skipped, back is exactly 10 MiB and is
\* uploaded, selfie is uploaded, the response is 200.
C8_Witness ==
    /\ Responded /\ TextSent /\ Len(photos) = 3
    /\ PayloadBytes(photos[1].payload) = 10485761
    /\ PayloadBytes(photos[2].payload) = 10485760
    /\ DecodedAs(photos[1].key, FALSE) /\ CallsFor(photos[1].key) = {}
    /\ CallsFor(photos[2].key) # {} /\ CallsFor(photos[3].key) # {}
    /\ Reply.status = 200

\* A date as one number, ordered as the calendar is
Ordinal(d) == d.year * 10000 + d.month * 100 + d.day

DayAfter(d) ==
    IF d.day < DaysInMonth(d.year, d.month) THEN Date(d.year, d.month, d.day + 1)
    ELSE IF d.month < 12 THEN Date(d.year, d.month + 1, 1)
    ELSE Date(d.year + 1, 1, 1)

\* The 18th anniversary seen from the server's day
EighteenYearsAgo == Date(clock.year - 18, clock.month, clock.day)

\* C9: validate_birthdate accepts a text exactly when it is a date that
\* lies on or before the day 18 years before today: the birthdate 18 years
\* ago to the day is accepted, the day after it is refused, and a text that
\* is no date is refused.
C9_BirthdateBoundary ==
    pc = "returned"
    => /\ ret <=> (arg.valid /\ Ordinal(arg.date) <= Ordinal(clock) - 180000)
       /\ (arg.valid /\ arg.date = EighteenYearsAgo) => ret
       /\ (arg.valid
             /\ IsDate(EighteenYearsAgo.year, EighteenYearsAgo.month, EighteenYearsAgo.day)
             /\ arg.date = DayAfter(EighteenYearsAgo)) => ~ret
       /\ ~arg.valid => ~ret

\* On 2026-11-01 the birthdate 2008-11-01 is accepted.
C9_Witness ==
    /\ pc = "returned"
    /\ clock = Date(2026, 11, 1)
    /\ arg.text = <<"2","0","0","8","-","1","1","-","0","1">>
    /\ ret = TRUE

\* On 2026-11-01 the birthdate 2008-11-02 is refused.
C9_WitnessDayAfter ==
    /\ pc = "returned"
    /\ clock = Date(2026, 11, 1)
    /\ arg.valid /\ arg.date = Date(2008, 11, 2)
    /\ ret = FALSE

\* C10 as stated: a request whose body is not JSON, or is empty, is answered
\* 400 with success = false, and no outbound call is made.
C10_MalformedIs400 ==
    (Responded /\ request.kind \in {"garbage", "empty"})
    => /\ Reply.status = 400
       /\ Reply.body.success = FALSE
       /\ calls = <<>>

RangeOf(s) == {s[i] : i \in 1..Len(s)}

\* The "required" messages of both RequiredFieldSets
RequiredMessages ==
    {r.message : r \in RangeOf(required_fields_job) \cup RangeOf(required_fields_nextcard)}

\* The messages the claim lists: per-field required, three generic
\* validation, three photo-slot, dispatch-failure, internal-error, success
StatedMessages ==
    RequiredMessages
      \cup {"Email inválido", "Número de telefone inválido",
            "Você deve ter pelo menos 18 anos"}
      \cup {"Foto front é obrigatória", "Foto back é obrigatória",
            "Foto selfie é obrigatória"}
      \cup {"Erro ao enviar para o Telegram", "Erro interno do servidor",
            "Dados enviados com sucesso"}

\* The two messages of a request refused before a Submission is read
RequestMessages == {"Content-Type must be application/json", "Nenhum dado recebido"}

\* The request makes the handler raise: a body that does not parse, or a
\* JSON array (which has no get)
RaisesInternally ==
    request.isJson /\ request.kind \in {"garbage", "empty", "array"}

\* C11 as stated: every response message is one of the per-field required
\* messages, the three generic validation messages, the three photo-slot
\* messages, the dispatch-failure, the internal-error or the success message.
C11_FixedMessagesAsStated ==
    Responded => Reply.body.message \in StatedMessages

\* C11 (amended): every response message is one of the constant strings the
\* claim lists or one of the two request-level messages ("Content-Type must
\* be application/json", "Nenhum dado recebido"); the body carries nothing
\* but success, message and (on 200) applicationId, so no exception text and
\* no field value reaches the caller; and a request on which the handler
\* raises is answered 500 with the generic internal-error message.
C11_FixedMessages ==
    Responded
    => /\ Reply.body.message \in StatedMessages \cup RequestMessages
       /\ DOMAIN Reply.body \subseteq {"success", "message", "applicationId"}
       /\ Reply.status \in {200, 400, 500}
       /\ Reply.status = 200 <=> Reply.body.message = "Dados enviados com sucesso"
       /\ Reply.status = 500 <=>
            Reply.body.message \in {"Erro ao enviar para o Telegram",
                                    "Erro interno do servidor"}
       /\ RaisesInternally <=>
            (Reply.status = 500 /\ Reply.body.message = "Erro interno do servidor")

\* A JSON array as body makes data.get raise: the caller gets 500 with the
\* generic message only.
C11_Witness ==
    /\ Responded
    /\ request.isJson /\ request.kind = "array"
    /\ Reply = [status |-> 500,
                body |-> [success |-> FALSE, message |-> "Erro interno do servidor"]]

\* The moves of the intake state machine; the Dispatcher is at work in
\* SendingPhotos, between Validated and Dispatched.
Transitions ==
    { <<"Received", "SchemaSelected">>,
      <<"SchemaSelected", "Validated">>,
      <<"SchemaSelected", "ValidationFailed">>,
      <<"Validated", "SendingPhotos">>,
      <<"Validated", "DispatchFailed">>,
      <<"SendingPhotos", "Dispatched">>,
      <<"Dispatched", "Responded">>,
      <<"ValidationFailed", "Responded">>,
      <<"DispatchFailed", "Responded">> }

\* The status each last state answers with
StatusAfter(state) ==
    CASE state = "Dispatched"       -> 200
      [] state = "ValidationFailed" -> 400
      [] state = "DispatchFailed"   -> 500

\* One step of a request through the handler
IntakeStep ==
    /\ pc # "Responded"
    /\ pc' # pc =>
          \/ <<pc, pc'>> \in Transitions
          \/ ~IsSubmission /\ pc = "Received" /\ pc' = "Responded"
    /\ IF pc' = "Responded"
       THEN /\ Len(response) = 0 /\ Len(response') = 1
            /\ IsSubmission => response'[1].status = StatusAfter(pc)
            /\ calls' = calls
       ELSE response' = response
    /\ calls' # calls => pc \in {"Validated", "SendingPhotos"}

\* C12: a request follows the intake state machine and terminates: every
\* step is a move Received -> SchemaSelected -> Validated -> Dispatched ->
\* Responded (200), SchemaSelected -> ValidationFailed -> Responded (400) or
\* Validated -> DispatchFailed -> Responded (500); the response is produced
\* once, on entering Responded; nothing changes after Responded, so no
\* outbound call follows it; and a request that was received is eventually
\* responded to.
C12_IntakeTerminates ==
    /\ [][IntakeStep]_vars
    /\ [](pc = "Received" => <>Responded)

\* A submission went all the way to the 200, with its four outbound calls
\* made before the response.
C12_Witness ==
    /\ Responded /\ IsSubmission
    /\ Len(response) = 1 /\ Reply.status = 200
    /\ Len(calls) = 4

\* Something went out, or was prepared to: an outbound call or a decode
Dispatching == calls # <<>> \/ decoded # <<>> \/ pc \in {"Validated", "SendingPhotos"}

\* The e-mail of the request as sent is there and does not match the pattern
\* of line 64
SentBadEmail ==
    /\ ~MissingSent("email")
    /\ ~validate_email(request.form["email"])

\* C13: an outbound call is made (or a photo decoded) only for a Submission
\* whose required fields are all present and non-empty, whose e-mail matches
\* the pattern, whose phone has at least 10 digits, whose birthdate gives an
\* age of 18 or more when it is a FinancialCardApplication, and whose slots
\* front, back and selfie are non-empty whatever the kind; and a Submission
\* with a non-matching e-mail is answered 400 with no outbound call, with
\* the message "Email inválido" when no required field is missing.
C13_NoCallUnlessValid ==
    /\ Dispatching
       => /\ IsSubmission
          /\ \A f \in FieldsOf(SentRequired) : ~MissingNow(f)
          /\ validate_email(form_data["email"])
          /\ validate_phone(form_data["phone"])
          /\ ~SentAsJob => /\ clock \in Clocks
                           /\ validate_birthdate(form_data["birthdate"], clock)
          /\ \A slot \in {"front", "back", "selfie"} : ~SlotEmpty(slot)
    /\ (pc # "client" /\ IsSubmission /\ SentBadEmail)
       => /\ ~Dispatching
          /\ Responded =>
               /\ Reply.status = 400
               /\ (\A f \in FieldsOf(SentRequired) : ~MissingNow(f))
                    => Reply.body.message = "Email inválido"

\* A NextCard application in which only the e-mail was changed, to "a@b.c",
\* is answered 400 "Email inválido" and nothing is sent.
C13_Witness ==
    /\ Responded /\ IsSubmission
    /\ edits = {<<"form", "email">>}
    /\ request.form["email"] = <<"a", "@", "b", ".", "c">>
    /\ Reply.status = 400 /\ Reply.body.message = "Email inválido"
    /\ calls = <<>> /\ decoded = <<>>

\* The place of a slot in the order front, back, selfie
SlotRank(slot) ==
    CASE slot = "front" -> 1 [] slot = "back" -> 2 [] slot = "selfie" -> 3
      [] OTHER -> 4

\* C14 as stated: the text-send call comes before every media-upload call,
\* and the slots are decoded and uploaded in the order front, back, selfie,
\* whatever the order of the keys in the request's photos mapping.
C14_FixedSlotOrder ==
    /\ \A i \in PhotoCalls : i > 1 /\ calls[1].api = "sendMessage"
    /\ \A i, j \in PhotoCalls :
          i < j => SlotRank(calls[i].slot) < SlotRank(calls[j].slot)
    /\ \A i, j \in 1..Len(decoded) :
          i < j => SlotRank(decoded[i].slot) < SlotRank(decoded[j].slot)

\* C15 as stated: at most three media-upload calls are made for a
\* submission, each for one of the slots front, back, selfie, and only these
\* slots are decoded, also when the photos mapping carries other keys.
C15_OnlyThreeSlots ==
    /\ Cardinality(PhotoCalls) <= 3
    /\ \A i \in PhotoCalls : calls[i].slot \in {"front", "back", "selfie"}
    /\ \A j \in 1..Len(decoded) : decoded[j].slot \in {"front", "back", "selfie"}

TextCalls == {i \in 1..Len(calls) : calls[i].api = "sendMessage"}

DecodesOf(slot) == {j \in 1..Len(decoded) : decoded[j].slot = slot}

\* C16: within one submission the text-send call is made at most once and,
\* for each entry of the photos mapping, the payload is decoded at most once
\* and the media-upload call made at most once, whether the attempt
\* succeeded, failed or timed out; once the handler has answered a validated
\* submission the text-send was made exactly once.
C16_NoRetries ==
    /\ Cardinality(TextCalls) <= 1
    /\ \A slot \in PhotoKeys(photos) \cup {"front", "back", "selfie"} :
          /\ Cardinality(CallsFor(slot)) <= 1
          /\ Cardinality(DecodesOf(slot)) <= 1
    /\ Len(calls) <= 1 + Len(photos)
    /\ (Responded /\ PassedValidation) => Cardinality(TextCalls) = 1

\* Every upload failed or timed out, and each slot was still tried once
\* only.
C16_Witness ==
    /\ Responded /\ TextSent
    /\ Len(calls) = 4
    /\ FailedPhotoCalls = {2, 3, 4}
    /\ \E i \in PhotoCalls : calls[i].outcome = "timeout"
    /\ \E i \in PhotoCalls : calls[i].outcome = "http_error"
    /\ \A slot \in {"front", "back", "selfie"} : Cardinality(CallsFor(slot)) = 1

\* The "required" messages of the fields only a NextCard application requires
NextCardOnlyMessages ==
    {r.message : r \in {x \in RangeOf(required_fields_nextcard) :
                            x.field \notin FieldsOf(required_fields_job)}}

TitleOf(is_job) ==
    IF is_job THEN "Nova Candidatura Recebida" ELSE "Nova solicitação de NextCard"

\* C17: from schema selection on, the kind of a Submission is
\* JobApplication exactly when the request's applicationType is
\* 'job_application' or its cardType is 'Vaga de Emprego', filling the
\* defaults does not change it, and this one kind decides the required
\* fields (a job application is never refused for a NextCard-only field),
\* whether defaults are filled in, whether the birthdate is checked (today's
\* date is read only for a NextCard application), the template and the
\* applicationId prefix.
C17_OneSchemaKind ==
    (pc \notin {"client", "Received"} /\ IsSubmission)
    => /\ is_job_application = SentAsJob
       /\ IsJobApplication(form_data) = SentAsJob
       /\ Get(form_data, "applicationType", <<>>) = Get(request.form, "applicationType", <<>>)
       /\ Get(form_data, "cardType", <<>>) = Get(request.form, "cardType", <<>>)
       /\ IF SentAsJob
          THEN /\ \A f \in FieldsOf(optional_fields) : ~MissingNow(f)
               /\ clock = NotRead
               /\ Responded =>
                    Reply.body.message \notin
                       NextCardOnlyMessages \cup {"Você deve ter pelo menos 18 anos"}
          ELSE /\ form_data = request.form
               /\ PassedValidation =>
                    /\ clock \in Clocks
                    /\ validate_birthdate(form_data["birthdate"], clock)
       /\ PassedValidation => message.title = TitleOf(SentAsJob)
       /\ (Responded /\ HasId) =>
            SubSeq(Reply.body.applicationId, 1, 2)
              = (IF SentAsJob THEN <<"J", "H">> ELSE <<"N", "C">>)

\* A request marked as a job application by the legacy cardType alone, with
\* the birthdate of a minor: no birthdate check, the job template, a JH id.
C17_Witness ==
    /\ Responded /\ IsSubmission
    /\ "applicationType" \notin DOMAIN request.form
    /\ Get(request.form, "cardType", <<>>) = VAGA_DE_EMPREGO
    /\ "birthdate" \in DOMAIN form_data
    /\ ~validate_birthdate(form_data["birthdate"], Date(2026, 11, 1))
    /\ message.title = "Nova Candidatura Recebida"
    /\ Reply.status = 200
    /\ SubSeq(Reply.body.applicationId, 1, 2) = <<"J", "H">>

\* The locals of call w, running or waiting
LocalsOf(w) == IF w = self THEN Locals ELSE parked[w]

\* The non-empty entries of a photos mapping, in its order, and those of
\* them that decode
NonEmptyEntries(ph) == SelectSeq(ph, LAMBDA e : PhotoTruthy(e.payload))

DecodableEntries(ph) ==
    SelectSeq(NonEmptyEntries(ph), LAMBDA e : process_image_data(e.payload).ok)

KeysOf(entries) == [i \in 1..Len(entries) |-> entries[i].key]

SlotsOf(records) == [i \in 1..Len(records) |-> records[i].slot]

\* What a call with locals l has done is what its own request alone
\* accounts for: the refusal of its own body; or its own form with its own
\* defaults, its own photos and kind, the verdict on them, the message
\* formatted from them, one text-send followed by the uploads of its own
\* decodable photos, and the response that goes with its own text-send.
AsIfAlone(l) ==
    LET req     == l.request
        refused == ParseFailure(req)
        job     == IsJobApplication(req.form)
        form    == SelectSchema(req.form)
        verdict == Validate(form, req.photos, job, l.clock)
        done    == l.pc = "Responded"
    IN  IF refused.status # 0
        THEN /\ l.calls = <<>> /\ l.decoded = <<>> /\ l.message = NoMessage
             /\ done => l.response =
                   <<[status |-> refused.status, body |-> ErrorBody(refused.message)]>>
        ELSE l.pc # "Received"
             => /\ l.form_data = form
                /\ l.photos = req.photos
                /\ l.is_job_application = job
                /\ l.pc # "SchemaSelected"
                   => IF ~verdict.ok
                      THEN /\ l.calls = <<>> /\ l.decoded = <<>> /\ l.message = NoMessage
                           /\ done => l.response =
                                 <<[status |-> 400, body |-> ErrorBody(verdict.message)]>>
                      ELSE /\ l.message = FormatMessage(form, req.photos, job)
                           /\ done
                              => /\ Len(l.calls) >= 1 /\ l.calls[1].api = "sendMessage"
                                 /\ Len(l.response) = 1
                                 /\ IF l.calls[1].outcome = "ok"
                                    THEN /\ SlotsOf(Tail(l.calls))
                                              = KeysOf(DecodableEntries(req.photos))
                                         /\ SlotsOf(l.decoded)
                                              = KeysOf(NonEmptyEntries(req.photos))
                                         /\ l.response[1].status = 200
                                         /\ SubSeq(l.response[1].body.applicationId, 1, 2)
                                              = Prefix(job)
                                    ELSE /\ Len(l.calls) = 1 /\ l.decoded = <<>>
                                         /\ l.response[1] =
                                              [status |-> 500,
                                               body |-> ErrorBody("Erro ao enviar para o Telegram")]

\* C18: whatever the interleaving of the calls in progress, each call's
\* form, photos, kind, message, outbound calls and response (status,
\* message, id prefix) are those its own request gives when handled alone.
C18_NoInterference ==
    \A w \in Workers \cap (DOMAIN parked \cup {self}) : AsIfAlone(LocalsOf(w))

\* Call 2, a NextCard application with a bad e-mail, was validated and
\* answered 400 while call 1, a job application, was inside its photo loop
\* with the text and one photo sent.
C18_Witness ==
    /\ self = 2 /\ pc = "Responded"
    /\ ~is_job_application /\ Reply.status = 400
    /\ 1 \in DOMAIN parked
    /\ parked[1].pc = "SendingPhotos"
    /\ parked[1].is_job_application
    /\ Len(parked[1].calls) = 2

\* C19: schema selection changes the Submission only by filling defaults.
\* In a job application a field outside the seven-field list is neither
\* added, removed nor changed, a listed field sent non-empty keeps its
\* value, and a listed field sent absent or empty holds its own default
\* whatever the other fields are; in a NextCard application form_data is
\* the form as sent, and the message is formatted from exactly it. The
\* photos are those sent.
C19_OnlyDefaultsFilled ==
    (pc \notin {"client", "Received"} /\ IsSubmission)
    => /\ photos = request.photos
       /\ IF SentAsJob
          THEN /\ DOMAIN form_data = DOMAIN request.form \cup FieldsOf(optional_fields)
               /\ \A f \in DOMAIN form_data :
                     IF f \in FieldsOf(optional_fields) /\ MissingSent(f)
                     THEN form_data[f] = DefaultOf(f)
                     ELSE form_data[f] = request.form[f]
          ELSE /\ form_data = request.form
               /\ PassedValidation
                    => message = FormatNextCard(request.form, request.photos)

\* A job application sent with its lastName and without city: the lastName
\* is kept, the city is defaulted, the form is accepted.
C19_Witness ==
    /\ Responded /\ IsSubmission /\ SentAsJob
    /\ Get(request.form, "lastName", <<>>) = <<"L", "i", "m", "a">>
    /\ "city" \notin DOMAIN request.form
    /\ form_data["lastName"] = <<"L", "i", "m", "a">>
    /\ form_data["city"] = NAO_INFORMADO
    /\ form_data["idNumber"] = <<"X", "1", "2", "3">>
    /\ Reply.status = 200

\* The lines of each template that show a field outside the RequiredFieldSet
\* of its kind and outside the defaults
OptionalLines(is_job) ==
    IF is_job
    THEN { [label |-> "Celular",               field |-> "cellphone"],
           [label |-> "Nacionalidade",         field |-> "nationality"],
           [label |-> "Data Nascimento",       field |-> "birthdate"],
           [label |-> "Área de Interesse",     field |-> "positionInterest"],
           [label |-> "Profissão",             field |-> "occupation"],
           [label |-> "Instituições",          field |-> "institutions"],
           [label |-> "Experiência",           field |-> "experience"],
           [label |-> "Escolaridade",          field |-> "education"],
           [label |-> "Idiomas",               field |-> "languages"],
           [label |-> "Habilidades",           field |-> "skills"],
           [label |-> "Carta de Apresentação", field |-> "coverLetter"] }
    ELSE { [label |-> "Endereço 2",            field |-> "addressLine2"] }

\* The value the message shows under a label
Rendered(label) ==
    (CHOOSE l \in RangeOf(message.lines) : l.label = label).value

\* C20 as stated: in the formatted message of either template every
\* optional field that the validated Submission lacks (absent, or present as
\* an empty string) is shown as the "not informed" placeholder, and the
\* defaults filled in for a job application are the values shown.
C20_PlaceholderForMissing ==
    PassedValidation
    => /\ \A o \in OptionalLines(is_job_application) :
            MissingNow(o.field) => Rendered(o.label) \in {NAO_INFORMADO, NAO_INFORMADA}
       /\ is_job_application
            => /\ Rendered("Salário Atual") = form_data["income"]
               /\ Rendered("Situação de Emprego") = form_data["employmentStatus"]
               /\ Rendered("Nome") =
                     form_data["firstName"] \o <<" ">> \o form_data["lastName"]

====
